---- MODULE Spec2Model ----
(***************************************************************************)
(* A model of sim.py, the AGV telemetry simulator: the per-vehicle state   *)
(* transition AGVState.tick, the rendering AGVState.to_doc, the publisher  *)
(* bulk_index and the driver loop of main.                                 *)
(*                                                                         *)
(* Numbers are fixed point, so that the arithmetic of the source is exact: *)
(*   speed_kph   in 1/1000 kph                                             *)
(*   position_m  in 1/3600 m  (speed_kph*1000/3600*dt metres is then       *)
(*               speed * dt units, for dt in whole seconds)                *)
(*   soc_pct     in 1/100 %                                                *)
(*   random.random() in 1/1000 (P_FLIP, P_MOVE, P_CHARGE)                  *)
(*   time.time() and the intervals in whole seconds                        *)
(***************************************************************************)
EXTENDS Integers, Sequences, FiniteSets, TLC

VARIABLES
    es_url,      \* ES_URL, read from the environment
    es_api_key,  \* ES_API_KEY, read from the environment
    dt,          \* TICK_INTERVAL_SEC
    duration,    \* DURATION_SEC
    agvs,        \* main's list of AGVState objects
    soc0,        \* history: soc_pct of the vehicle last ticked, on entry to that tick
    chg,         \* history: what random.random() gave at line 63 of the last tick
    docs,        \* main's list docs of the current loop iteration
    i,           \* position of the for loop over agvs (index of the next vehicle)
    adv,         \* history: how many times each vehicle was ticked
    since,       \* history: the ticks of each vehicle since it last ended a lane
    tick,        \* main's counter tick
    pc,          \* where main is
    now,         \* time.time()
    start,       \* main's start
    seen,        \* history: time.time() - start as the last loop test read it
    jumps,       \* history: how often the wall clock was set back
    posted,      \* the bodies the store accepted: the sizes of the batches
    exc,         \* the exception that ended main ("None" while there is none)
    out          \* what main printed: the tick counts

vars == <<es_url, es_api_key, dt, duration, agvs, soc0, chg, docs, i, adv, since,
          tick, pc, now, start, seen, jumps, posted, exc, out>>

----------------------------------------------------------------------------
(* Bounds of the model *)

\* vehicles in the fleet (the source has 10, AGV_IDS)
NumAGV == 2
\* the longest configured run of the driver, in seconds (the source defaults to 600)
MaxDuration == 3
\* ticks of the single vehicle of SpecAGV
MaxTicks == 2
\* how often the wall clock may be set back during a run
MaxJumps == 1

----------------------------------------------------------------------------
(* Units *)

SpeedScale == 1000
PosScale == 3600
SocScale == 100

Max(a, b) == IF a >= b THEN a ELSE b
Min(a, b) == IF a <= b THEN a ELSE b

\* x/q rounded to the nearest integer, ties to the even one: Python's round
RoundHalfEven(x, q) ==
    LET f == x \div q
        r == x % q
    IN  IF 2 * r < q THEN f
        ELSE IF 2 * r > q THEN f + 1
        ELSE IF f % 2 = 0 THEN f ELSE f + 1

----------------------------------------------------------------------------
(* Module constants of sim.py *)

\* f"AGV-{i:02d}": the prefix and the two digits
AgvId(n) == <<"AGV-", n \div 10, n % 10>>

AGV_IDS == [n \in 1..NumAGV |-> AgvId(n)]

YARD_BLOCKS == <<"YB10", "YB11", "YB12">>

LANES_BY_BLOCK ==
    [b \in {"YB10", "YB11", "YB12"} |->
        CASE b = "YB10" -> <<"L41", "L42">>
          [] b = "YB11" -> <<"L43", "L44">>
          [] b = "YB12" -> <<"L45", "L46">>]

LANE_LENGTH == 1000 * PosScale
MIN_SPEED == 4 * SpeedScale
MAX_SPEED == 18 * SpeedScale
LOW_SOC == 30 * SocScale

Range(s) == {s[k] : k \in DOMAIN s}

----------------------------------------------------------------------------
(* The random draws.  Each set is a bounded part of the range the source   *)
(* draws from and holds the ends of that range.                            *)

\* random.uniform(-1.0, 1.0), line 40
SpeedDeltas == {-1 * SpeedScale, 0, 1 * SpeedScale}
\* random.uniform(0.01, 0.05), line 60, in 1/100 % per second
DRAIN_MIN == 1
DRAIN_MAX == 5
DrainRates == {DRAIN_MIN, DRAIN_MAX}
\* random.randint(100000, 999999), line 36: both ends included
JobNumbers == {100000, 999999}
\* random.uniform(70, 100), line 64
RechargeLevels == {70 * SocScale, 100 * SocScale}

\* the three thresholds random.random() is compared with, in 1/1000
P_FLIP == 500
P_MOVE == 300
P_CHARGE == 10

\* random.random() next to a threshold p: the last value below it, and p itself
RandomNear(p) == {p - 1, p}

\* a draw is <<v>>, and <<>> when the tick did not make it
NoEndDraws ==
    [job |-> <<>>, flip |-> <<>>, move |-> <<>>, block |-> <<>>, lane |-> <<>>]

----------------------------------------------------------------------------
(* class AGVState *)

\* f"JOB-{n}"
NewJobId(n) == <<"JOB-", n>>

\* random.choice(LANES_BY_BLOCK[block]) with the index k drawn
PickLane(block, k) == LANES_BY_BLOCK[block][k]

\* __init__, with the random choices as arguments
AGVState(agv_id, b, k, pos, spd, soc, job, load) ==
    [agv_id      |-> agv_id,
     yard_block  |-> YARD_BLOCKS[b],
     lane_id     |-> PickLane(YARD_BLOCKS[b], k),
     position_m  |-> pos,
     speed_kph   |-> spd,
     soc_pct     |-> soc,
     job_id      |-> NewJobId(job),
     load_status |-> load]

\* a speed left as it is
ClampNone(s) == s

\* the speed held below MAX_SPEED only
ClampHighOnly(s) == Min(s, MAX_SPEED)

\* max(4.0, min(speed, 18.0)), line 41
Clamp(s) == Max(MIN_SPEED, Min(s, MAX_SPEED))

\* lines 40-41: the speed after the drift dv
Drift(a, dv) == Clamp(a.speed_kph + dv)

\* lines 44-45: the position after t seconds at speed s
Advanced(a, s, t) == a.position_m + s * t

\* the end of the lane taken as passed only beyond LANE_LENGTH
ReachedEndStrict(p) == p > LANE_LENGTH

\* a lane held to end at half its length
ReachedEndHalfway(p) == 2 * p >= LANE_LENGTH

\* line 48
ReachedEnd(p) == p >= LANE_LENGTH

\* line 53
Flipped(l) == IF l = "EMPTY" THEN "LOADED" ELSE "EMPTY"

\* the threshold taken twice as high
BelowLowWide(soc) == soc < 2 * LOW_SOC

\* line 61
BelowLow(soc) == soc < LOW_SOC

\* line 63
Fires(r) == r < P_CHARGE

\* the block drawn anew and the lane kept
ReassignBlockOnly(a, b, k) == [a EXCEPT !.yard_block = YARD_BLOCKS[b]]

\* lines 56-57: the block drawn as YARD_BLOCKS[b], then the lane as the k-th of it
Reassign(a, b, k) ==
    [a EXCEPT !.yard_block = YARD_BLOCKS[b],
              !.lane_id = PickLane(YARD_BLOCKS[b], k)]

\* lines 49-57: the end of the lane, with the draws dr
FinishJob(a, dr) ==
    LET a1 == [a EXCEPT !.position_m = 0, !.job_id = NewJobId(dr.job[1])]
        a2 == IF dr.flip[1] < P_FLIP
              THEN [a1 EXCEPT !.load_status = Flipped(@)]
              ELSE a1
    IN  IF dr.move[1] < P_MOVE THEN Reassign(a2, dr.block[1], dr.lane[1]) ELSE a2

\* the battery drained after the recharge instead of before it
BatteryDrainLast(a, t, dr) ==
    LET soc == a.soc_pct - dr.drain[1] * t
    IN  IF BelowLow(soc) /\ Fires(dr.chg[1])
        THEN [a EXCEPT !.soc_pct = dr.soc[1] - dr.drain[1] * t]
        ELSE [a EXCEPT !.soc_pct = soc]

\* a recharge that adds the drawn level to the charge left
BatteryTopUp(a, t, dr) ==
    LET soc == a.soc_pct - dr.drain[1] * t
    IN  IF BelowLow(soc) /\ Fires(dr.chg[1])
        THEN [a EXCEPT !.soc_pct = soc + dr.soc[1]]
        ELSE [a EXCEPT !.soc_pct = soc]

\* a drain that stops at an empty battery
BatteryFloor(a, t, dr) ==
    LET soc == Max(0, a.soc_pct - dr.drain[1] * t)
    IN  IF BelowLow(soc) /\ Fires(dr.chg[1])
        THEN [a EXCEPT !.soc_pct = dr.soc[1]]
        ELSE [a EXCEPT !.soc_pct = soc]

\* lines 59-64: the battery, with the draws dr
Battery(a, t, dr) ==
    LET soc == a.soc_pct - dr.drain[1] * t
    IN  IF BelowLow(soc) /\ Fires(dr.chg[1])
        THEN [a EXCEPT !.soc_pct = dr.soc[1]]
        ELSE [a EXCEPT !.soc_pct = soc]

\* a tick that returns once the lane is completed, the battery left as it was
AGVTickReturnsAtEnd(a, t, dr) ==
    LET s  == Drift(a, dr.dv[1])
        p  == Advanced(a, s, t)
        a1 == [a EXCEPT !.speed_kph = s, !.position_m = p]
    IN  IF ReachedEnd(p) THEN FinishJob(a1, dr) ELSE Battery(a1, t, dr)

\* tick(dt_sec), lines 38-64, with the draws dr
AGVTick(a, t, dr) ==
    LET s  == Drift(a, dr.dv[1])
        p  == Advanced(a, s, t)
        a1 == [a EXCEPT !.speed_kph = s, !.position_m = p]
        a2 == IF ReachedEnd(p) THEN FinishJob(a1, dr) ELSE a1
    IN  Battery(a2, t, dr)

\* the draws the end of the lane makes (lines 50-57), none when it is not reached
EndDraws(end) ==
    IF ~end THEN {NoEndDraws}
    ELSE UNION {
        {[job |-> <<j>>, flip |-> <<f>>, move |-> <<m>>, block |-> bl[1], lane |-> bl[2]] :
            bl \in IF m < P_MOVE
                   THEN UNION {{<< <<b>>, <<k>> >> :
                                  k \in DOMAIN LANES_BY_BLOCK[YARD_BLOCKS[b]]} :
                               b \in DOMAIN YARD_BLOCKS}
                   ELSE {<< <<>>, <<>> >>}} :
        j \in JobNumbers, f \in RandomNear(P_FLIP), m \in RandomNear(P_MOVE)}

\* the draws the battery makes (lines 60-64) from the drained charge soc
ChargeDraws(soc) ==
    IF ~BelowLow(soc) THEN {[chg |-> <<>>, soc |-> <<>>]}
    ELSE UNION {
        {[chg |-> <<c>>, soc |-> v] :
            v \in IF Fires(c) THEN {<<l>> : l \in RechargeLevels} ELSE {<<>>}} :
        c \in RandomNear(P_CHARGE)}

\* every sequence of draws one tick of vehicle a can make, the speed drift
\* taken from deltas and the drain rate from rates
DrawsFor(a, t, deltas, rates) ==
    UNION {
        {[dv |-> <<dv>>, drain |-> <<r>>] @@ e @@ c :
            e \in EndDraws(ReachedEnd(Advanced(a, Drift(a, dv), t))),
            c \in ChargeDraws(a.soc_pct - r * t)} :
        dv \in deltas, r \in rates}

\* round(x, 2) and round(x, 1) of to_doc, as a count of 1/100 and of 1/10
Round2(x, scale) == RoundHalfEven(100 * x, scale)
Round1(x, scale) == RoundHalfEven(10 * x, scale)

\* datetime.now(timezone.utc).isoformat(): the time and the UTC offset
IsoUtc(t) == <<t, "+00:00">>

\* to_doc, lines 66-78, at time t
to_doc(a, t) ==
    [timestamp   |-> IsoUtc(t),
     agv_id      |-> a.agv_id,
     yard_block  |-> a.yard_block,
     lane_id     |-> a.lane_id,
     position_m  |-> Round2(a.position_m, PosScale),
     speed_kph   |-> Round2(a.speed_kph, SpeedScale),
     soc_pct     |-> Round1(a.soc_pct, SocScale),
     job_id      |-> a.job_id,
     load_status |-> a.load_status,
     mode        |-> "BAU"]

----------------------------------------------------------------------------
(* One vehicle at some point of a run, ticked MaxTicks times: the          *)
(* specification of AGVState.tick                                          *)

\* speeds: the ends of uniform(8, 14) of __init__, moved off the whole
\* numbers so that MIN_SPEED and MAX_SPEED are reached by the clamp alone,
\* and two speeds of a vehicle that has drifted for some ticks
Speeds == {4500, 8500, 13500, 17500}
\* charges: the ends of uniform(60, 100) of __init__, and the charge of a
\* vehicle that has drained for a long time: below, at and above LOW_SOC
Socs == {25 * SocScale, LOW_SOC + 3, 50 * SocScale, 60 * SocScale, 100 * SocScale}

\* a vehicle in the middle of its lane, and the vehicles that differ from it
\* in one attribute: its speed, its charge, its position, or its lane, job
\* and load
BaseAGV == AGVState(AgvId(1), 1, 1, 0, 8500, 100 * SocScale, 100000, "EMPTY")

SomeAGVs ==
    {[BaseAGV EXCEPT !.speed_kph = s] : s \in Speeds}
    \cup {[BaseAGV EXCEPT !.soc_pct = c] : c \in Socs}
    \cup {[BaseAGV EXCEPT !.position_m = LANE_LENGTH - 8500]}
    \cup {AGVState(AgvId(1), 3, 2, 0, 8500, 100 * SocScale, 999999, "LOADED")}

\* TICK_INTERVAL_SEC: the default of one second, and a long interval
TickIntervals == {1, 500}

InitAGV ==
    /\ es_url = "https://elastic.example.com"
    /\ es_api_key = "key"
    /\ dt \in TickIntervals
    /\ duration = 0
    /\ agvs \in {<<a>> : a \in SomeAGVs}
    /\ soc0 = agvs[1].soc_pct
    /\ chg = <<>>
    /\ docs = <<>>
    /\ i = 1
    /\ adv = <<0>>
    /\ since = <<0>>
    /\ tick = 0
    /\ pc = "tick"
    /\ now = 0
    /\ start = 0
    /\ seen = 0
    /\ jumps = 0
    /\ posted = <<>>
    /\ exc = "None"
    /\ out = <<>>

\* the count of ticks since the lane's end, after the tick of t seconds that
\* took the vehicle from a to b: 0 when that tick ended the lane (line 48)
SinceLaneEnd(a, b, t, n) ==
    IF ReachedEnd(Advanced(a, b.speed_kph, t)) THEN 0 ELSE n + 1

\* agv.tick(dt) on the one vehicle
VehicleTick ==
    /\ tick < MaxTicks
    /\ \E dr \in DrawsFor(agvs[1], dt, SpeedDeltas, DrainRates) :
        /\ agvs' = <<AGVTick(agvs[1], dt, dr)>>
        /\ chg' = dr.chg
    /\ soc0' = agvs[1].soc_pct
    /\ adv' = <<adv[1] + 1>>
    /\ since' = <<SinceLaneEnd(agvs[1], agvs'[1], dt, since[1])>>
    /\ tick' = tick + 1
    /\ UNCHANGED <<es_url, es_api_key, dt, duration, docs, i, pc, now, start,
                   seen, jumps, posted, exc, out>>

NextAGV == VehicleTick

SpecAGV == InitAGV /\ [][NextAGV]_vars


----------------------------------------------------------------------------
(* main and bulk_index: the specification of the program *)

\* os.environ.get: <<>> is None (the variable is not set), <<v>> the string v
EnvValues == {<<>>, <<"">>, <<"set">>}

\* not x, for x None or a string
Falsy(x) == x = <<>> \/ x[1] = ""

\* DURATION_SEC, an int of the environment
Durations == {-1, 0, MaxDuration}

\* seconds the ticking and the POST of one loop iteration take (timeout=10)
Overheads == {0, 1}

\* what requests.post and raise_for_status can raise
TransportErrors == {"ConnectionError", "Timeout", "HTTPError"}

\* [AGVState(agv_id) for agv_id in AGV_IDS], line 101: two of the vehicles
\* __init__ can draw for each id
NewAGVs(agv_id) ==
    {AGVState(agv_id, 1, 1, 0, 8500, 100 * SocScale, 100000, "EMPTY"),
     AGVState(agv_id, 3, 2, 500 * PosScale, 13500, 60 * SocScale, 999999, "LOADED")}

\* the draws of the fleet's ticks: the drift of the speed held at its upper
\* end, the drain rate at either end
FleetDeltas == {1 * SpeedScale}
FleetRates == DrainRates

RECURSIVE Fleets(_)
Fleets(n) ==
    IF n = 0 THEN {<<>>}
    ELSE {Append(f, a) : f \in Fleets(n - 1), a \in NewAGVs(AGV_IDS[n])}

Init ==
    /\ es_url \in EnvValues
    /\ es_api_key \in EnvValues
    /\ dt = 1
    /\ duration \in Durations
    /\ agvs = <<>>
    /\ soc0 = 0
    /\ chg = <<>>
    /\ docs = <<>>
    /\ i = 1
    /\ adv = [n \in 1..NumAGV |-> 0]
    /\ since = [n \in 1..NumAGV |-> 0]
    /\ tick = 0
    /\ pc = "main"
    /\ now = 0
    /\ start = 0
    /\ seen = 0
    /\ jumps = 0
    /\ posted = <<>>
    /\ exc = "None"
    /\ out = <<>>

\* either variable missing
ConfigMissingBoth == Falsy(es_url) /\ Falsy(es_api_key)

\* not ES_URL or not ES_API_KEY, line 98
ConfigMissing == Falsy(es_url) \/ Falsy(es_api_key)

\* main, lines 98-103
MainStart ==
    /\ pc = "main"
    /\ IF ConfigMissing
       THEN /\ exc' = "SystemExit"
            /\ pc' = "raised"
            /\ UNCHANGED agvs
       ELSE /\ agvs' \in Fleets(NumAGV)
            /\ pc' = "while"
            /\ UNCHANGED exc
    /\ start' = now
    /\ tick' = 0
    /\ UNCHANGED <<es_url, es_api_key, dt, duration, soc0, chg, docs, i, adv,
                   since, now, seen, jumps, posted, out>>

\* the loop going on until the elapsed time is beyond the duration
RunningInclusive == now - start <= duration

\* a loop with no end
RunningAlways == TRUE

\* time.time() - start < DURATION_SEC, line 105
Running == now - start < duration

\* the loop condition, line 105, and docs = [], line 106
WhileTest ==
    /\ pc = "while"
    /\ seen' = now - start
    /\ IF Running
       THEN /\ docs' = <<>>
            /\ i' = 1
            /\ pc' = "for"
       ELSE /\ pc' = "print"
            /\ UNCHANGED <<docs, i>>
    /\ UNCHANGED <<es_url, es_api_key, dt, duration, agvs, soc0, chg, adv,
                   since, tick, now, start, jumps, posted, exc, out>>

\* a record put in front of the batch
CollectInFront(ds, doc) == <<doc>> \o ds

\* docs.append(doc), line 109
Collect(ds, doc) == Append(ds, doc)

\* the body of the for loop for agvs[i], lines 107-109
ForAgv ==
    /\ pc = "for"
    /\ i <= Len(agvs)
    /\ \E dr \in DrawsFor(agvs[i], dt, FleetDeltas, FleetRates) :
        /\ agvs' = [agvs EXCEPT ![i] = AGVTick(agvs[i], dt, dr)]
        /\ chg' = dr.chg
    /\ soc0' = agvs[i].soc_pct
    /\ adv' = [adv EXCEPT ![i] = @ + 1]
    /\ since' = [since EXCEPT ![i] = SinceLaneEnd(agvs[i], agvs'[i], dt, @)]
    /\ docs' = Collect(docs, to_doc(agvs'[i], now))
    /\ i' = i + 1
    /\ pc' = IF i = Len(agvs) THEN "bulk_index" ELSE "for"
    /\ UNCHANGED <<es_url, es_api_key, dt, duration, tick, now, start, seen,
                   jumps, posted, exc, out>>

\* a publish that builds the fleet anew when the request fails
BulkIndexRebuilds ==
    /\ pc = "bulk_index"
    /\ IF docs = <<>>
       THEN /\ pc' = "sleep"
            /\ UNCHANGED <<agvs, now, posted, exc>>
       ELSE \E ov \in Overheads :
            /\ now' = now + ov
            /\ \/ /\ posted' = Append(posted, Len(docs))
                  /\ pc' = "sleep"
                  /\ UNCHANGED <<agvs, exc>>
               \/ /\ exc' \in TransportErrors
                  /\ pc' = "raised"
                  /\ agvs' \in Fleets(NumAGV)
                  /\ UNCHANGED posted
    /\ UNCHANGED <<es_url, es_api_key, dt, duration, soc0, chg, docs, i,
                   adv, since, tick, start, seen, jumps, out>>

\* bulk_index(INDEX_NAME, docs), lines 111 and 81-94
BulkIndex ==
    /\ pc = "bulk_index"
    /\ IF docs = <<>>
       THEN /\ pc' = "sleep"
            /\ UNCHANGED <<now, posted, exc>>
       ELSE \E ov \in Overheads :
            /\ now' = now + ov
            /\ \/ /\ posted' = Append(posted, Len(docs))
                  /\ pc' = "sleep"
                  /\ UNCHANGED exc
               \/ /\ exc' \in TransportErrors
                  /\ pc' = "raised"
                  /\ UNCHANGED posted
    /\ UNCHANGED <<es_url, es_api_key, dt, duration, agvs, soc0, chg, docs, i,
                   adv, since, tick, start, seen, jumps, out>>

\* seconds by which the wall clock that time.time() reads may be set back
ClockSetBacks == {2}

\* tick += 1 and time.sleep(TICK_INTERVAL_SEC), lines 112-113; the wall clock
\* time.time() reads may be set back meanwhile
Sleep ==
    /\ pc = "sleep"
    /\ tick' = tick + 1
    /\ \/ /\ now' = now + dt
          /\ UNCHANGED jumps
       \/ /\ jumps < MaxJumps
          /\ \E back \in ClockSetBacks : now' = now + dt - back
          /\ jumps' = jumps + 1
    /\ pc' = "while"
    /\ UNCHANGED <<es_url, es_api_key, dt, duration, agvs, soc0, chg, docs, i,
                   adv, since, start, seen, posted, exc, out>>

\* print(f"Simulation finished after {tick} ticks"), line 115
PrintFinished ==
    /\ pc = "print"
    /\ out' = Append(out, tick)
    /\ pc' = "done"
    /\ UNCHANGED <<es_url, es_api_key, dt, duration, agvs, soc0, chg, docs, i,
                   adv, since, tick, now, start, seen, jumps, posted, exc>>

Next ==
    \/ MainStart
    \/ WhileTest
    \/ ForAgv
    \/ BulkIndex
    \/ Sleep
    \/ PrintFinished

Spec == Init /\ [][Next]_vars

\* main is one sequential thread: whenever a step of it can be taken, one is
\* (time.sleep returns and requests.post returns or raises within its timeout)
SpecFair == Spec /\ WF_vars(Next)


----------------------------------------------------------------------------
(* Properties *)

Recharged == chg # <<>> /\ Fires(chg[1])

\* C1: a transport error of bulk_index (a network failure or a non-success
\* status) does not end the run: main is never ended by one, it goes on to
\* the next tick
C1_TransportErrorDoesNotEndRun ==
    ~(pc = "raised" /\ exc \in TransportErrors)

\* C2: with a tick interval of one second and every publish succeeding, a
\* run of duration seconds makes exactly duration ticks, publishes exactly
\* duration batches of one record per vehicle, and prints that tick count
C2_OneTickPerSecond ==
    (pc = "done" /\ dt = 1 /\ duration = MaxDuration) =>
        /\ tick = duration
        /\ Len(posted) = duration
        /\ \A k \in DOMAIN posted : posted[k] = NumAGV
        /\ out = <<duration>>

\* C3: a tick whose advanced position reaches LANE_LENGTH leaves the
\* position at 0 and the job_id different from the one before the tick
C3_LaneCompletionResets ==
    [][(tick' = tick + 1
        /\ ReachedEnd(Advanced(agvs[1], agvs'[1].speed_kph, dt)))
       => (agvs'[1].position_m = 0 /\ agvs'[1].job_id # agvs[1].job_id)]_vars

\* C4: after every tick, 0 <= position < LANE_LENGTH
C4_PositionBound ==
    \A k \in DOMAIN agvs :
        adv[k] > 0 => (0 <= agvs[k].position_m /\ agvs[k].position_m < LANE_LENGTH)

\* a tick has ended at the end of the lane, and the position is back at 0
C4_Witness ==
    /\ tick > 0
    /\ agvs[1].position_m = 0
    /\ agvs[1].job_id = NewJobId(999999)

\* C5: in the initial state and after every tick, MIN_SPEED <= speed <= MAX_SPEED
C5_SpeedBound ==
    \A k \in DOMAIN agvs :
        MIN_SPEED <= agvs[k].speed_kph /\ agvs[k].speed_kph <= MAX_SPEED

\* a tick has clamped the speed: no vehicle starts at MAX_SPEED
C5_Witness ==
    tick > 0 /\ agvs[1].speed_kph = MAX_SPEED

\* C6: in the initial state and after every tick, yard_block is one of the
\* fixed blocks and lane_id is a lane of yard_block
C6_LaneMembership ==
    \A k \in DOMAIN agvs :
        /\ agvs[k].yard_block \in Range(YARD_BLOCKS)
        /\ agvs[k].lane_id \in Range(LANES_BY_BLOCK[agvs[k].yard_block])

\* a tick has moved the vehicle to another block: no vehicle starts in YB11
C6_Witness ==
    tick > 0 /\ agvs[1].yard_block = "YB11"

\* C7: a vehicle that enters a tick with its charge below LOW_SOC and draws
\* the recharge ends the tick with its charge in [70, 100]
C7_RechargeOutcome ==
    (tick > 0 /\ soc0 < LOW_SOC /\ Recharged) =>
        (70 * SocScale <= agvs[1].soc_pct /\ agvs[1].soc_pct <= 100 * SocScale)

\* a vehicle has entered a tick with a charge of 25 and drawn the recharge
C7_Witness ==
    tick > 0 /\ soc0 = 25 * SocScale /\ Recharged

\* C8, as claimed: a vehicle that enters a tick with its charge not below
\* LOW_SOC is not recharged in that tick, whatever the tick interval
C8_NoRechargeFromAbove ==
    (tick > 0 /\ soc0 >= LOW_SOC) => ~Recharged

\* C8, amended: a vehicle whose charge is not below LOW_SOC after the
\* largest drain of the tick, DRAIN_MAX * dt, does not make the recharge
\* draw in that tick
C8_NoRechargeAboveDrain ==
    (tick > 0 /\ soc0 - DRAIN_MAX * dt >= LOW_SOC) => chg = <<>>

\* a vehicle has entered a tick of one second with a charge of 50
C8_Witness ==
    tick > 0 /\ dt = 1 /\ soc0 = 50 * SocScale /\ chg = <<>>

\* C9: the batch handed to bulk_index holds one record per vehicle, record k
\* with the id of the k-th vehicle of AGV_IDS, each vehicle ticked once more
\* than the ticks completed and rendered as it is after that tick
C9_BatchSizeAndOrder ==
    pc = "bulk_index" =>
        /\ Len(docs) = NumAGV
        /\ Len(agvs) = NumAGV
        /\ \A k \in 1..NumAGV :
            /\ docs[k].agv_id = AGV_IDS[k]
            /\ adv[k] = tick + 1
            /\ docs[k] = to_doc(agvs[k], now)

\* the batch of the second tick is about to be published
C9_Witness ==
    pc = "bulk_index" /\ tick = 1 /\ Len(docs) = NumAGV


\* C11: when ES_URL or ES_API_KEY is missing (unset or empty), main exits at
\* startup with SystemExit: no fleet is built, no tick is run, no vehicle is
\* advanced, no batch is collected and no publish is attempted.
C11_ConfigErrorIsFatal ==
    (es_url \in {<<>>, <<"">>} \/ es_api_key \in {<<>>, <<"">>}) =>
        /\ pc \in {"main", "raised"}
        /\ pc = "raised" => exc = "SystemExit"
        /\ exc \notin TransportErrors
        /\ agvs = <<>>
        /\ tick = 0
        /\ \A n \in 1..NumAGV : adv[n] = 0
        /\ docs = <<>>
        /\ posted = <<>>
        /\ out = <<>>

C11_Witness ==
    /\ pc = "raised"
    /\ exc = "SystemExit"
    /\ es_url = <<"set">>
    /\ es_api_key \in {<<>>, <<"">>}


\* C12: a publish attempt, whether it succeeds or raises, leaves every
\* vehicle as the tick's advance left it: the step of bulk_index changes no
\* vehicle, no tick count of a vehicle and no document of the batch.
C12_PublishKeepsVehicles ==
    [][pc = "bulk_index" =>
          /\ agvs' = agvs
          /\ adv' = adv
          /\ since' = since
          /\ docs' = docs]_vars

C12_Witness ==
    /\ pc = "raised"
    /\ exc \in TransportErrors
    /\ Len(docs) = NumAGV
    /\ \A n \in 1..NumAGV : adv[n] = 2 /\ agvs[n].position_m > 0


\* C13: the duration is tested against a monotonic clock, and only between
\* ticks: the elapsed time a loop test reads is never below the one the test
\* before it read, and at every loop test each of the vehicles has been
\* advanced once per tick begun and each tick's batch has been published.
C13_MonotonicAtTickBoundaries ==
    pc = "while" =>
        /\ now - start >= seen
        /\ \A n \in 1..NumAGV : adv[n] = tick
        /\ Len(posted) = tick


\* a step taken after the loop test has read an elapsed time at or beyond the
\* duration advances no vehicle, counts no tick and leads to the exit
C14_NoTickAfterExpiry ==
    pc \in {"print", "done"} =>
        /\ pc' = "done"
        /\ adv' = adv
        /\ agvs' = agvs
        /\ tick' = tick

\* C14: with a valid configuration and a positive duration, a run in which no
\* publish raises comes to its end: main prints the number of ticks run and
\* exits. A tick is begun only after a loop test that read an elapsed time
\* below the duration, and once a test has read one at or beyond it, no
\* vehicle is advanced and the loop is not entered again.
C14_Termination ==
    /\ (/\ es_url = <<"set">>
        /\ es_api_key = <<"set">>
        /\ duration > 0
        /\ [](exc \notin TransportErrors))
       => <>(pc = "done" /\ out = <<tick>> /\ \A n \in 1..NumAGV : adv[n] = tick)
    /\ [](pc \in {"for", "bulk_index", "sleep"} => seen < duration)
    /\ [](pc \in {"print", "done"} => seen >= duration)
    /\ [][C14_NoTickAfterExpiry]_vars

C14_Witness ==
    /\ pc = "done"
    /\ duration > 0
    /\ tick > 0
    /\ out = <<tick>>
    /\ now - start >= duration


\* C15: the charge of a vehicle is at most 100 per cent, in the initial state
\* and after every tick, the ticks in which the recharge fires included.
C15_ChargeAtMost100 ==
    \A n \in 1..Len(agvs) : agvs[n].soc_pct <= 100 * SocScale

C15_Witness ==
    /\ tick > 0
    /\ Recharged
    /\ soc0 > 0
    /\ agvs[1].soc_pct = 100 * SocScale


\* C16: the charge is not held at 0. A tick in which the recharge does not
\* fire and whose drain is more than the charge left takes the charge below
\* 0, and a charge at or below 0 goes on falling by the drain of each tick: a
\* negative charge is reached and nothing stops the fall but a recharge.
C16_NoLowerBound ==
    (tick > 0 /\ ~Recharged /\ soc0 < DRAIN_MIN * dt) =>
        /\ agvs[1].soc_pct < 0
        /\ agvs[1].soc_pct <= soc0 - DRAIN_MIN * dt

C16_Witness ==
    /\ tick > 0
    /\ ~Recharged
    /\ soc0 <= 0
    /\ agvs[1].soc_pct < soc0


\* C17: every tick in which the recharge does not fire takes d * dt off the
\* charge, for a rate d between 0.01 and 0.05 per cent a second, whether the
\* tick completed the lane or not: the charge after it is strictly below the
\* charge before it.
C17_DrainUnconditional ==
    (tick > 0 /\ ~Recharged) =>
        /\ \E d \in DRAIN_MIN..DRAIN_MAX : agvs[1].soc_pct = soc0 - d * dt
        /\ agvs[1].soc_pct < soc0

C17_Witness ==
    /\ tick > 0
    /\ ~Recharged
    /\ agvs[1].position_m = 0
    /\ agvs[1].soc_pct < soc0


\* a tick keeps the vehicle's id, and a tick whose advanced position is short
\* of the lane's end keeps its job, load status, yard block and lane
C18_FrameOfTick ==
    tick' = tick + 1 =>
        /\ agvs'[1].agv_id = agvs[1].agv_id
        /\ Advanced(agvs[1], agvs'[1].speed_kph, dt) < LANE_LENGTH =>
              /\ agvs'[1].job_id = agvs[1].job_id
              /\ agvs'[1].load_status = agvs[1].load_status
              /\ agvs'[1].yard_block = agvs[1].yard_block
              /\ agvs'[1].lane_id = agvs[1].lane_id

\* C18: a tick that does not complete the lane (the advanced position is below
\* LANE_LENGTH) leaves job_id, load_status, yard_block and lane_id as they
\* were, and no tick ever changes agv_id.
C18_NonCompletingFrame == [][C18_FrameOfTick]_vars

C18_Witness ==
    /\ tick > 0
    /\ since[1] > 0
    /\ agvs[1].position_m > LANE_LENGTH \div 2
    /\ agvs[1].position_m < LANE_LENGTH


\* a tick that does not complete the lane moves the vehicle forward, by
\* MIN_SPEED * dt at least
C19_Progress ==
    (tick' = tick + 1 /\ since'[1] > 0) =>
        /\ agvs'[1].position_m > agvs[1].position_m
        /\ agvs'[1].position_m >= agvs[1].position_m + MIN_SPEED * dt

\* C19: the position grows strictly in every tick that does not complete the
\* lane, the n ticks since the lane's end or the start have covered
\* n * MIN_SPEED * dt at least, and n stays below LANE_LENGTH / (MIN_SPEED * dt):
\* the lane is completed within the ceiling of that quotient in ticks, from
\* any state, and so again and again in a run that goes on.
C19_LaneCompletionRecurs ==
    /\ [](/\ agvs[1].position_m >= since[1] * MIN_SPEED * dt
          /\ since[1] * MIN_SPEED * dt < LANE_LENGTH)
    /\ [][C19_Progress]_vars

C19_Witness ==
    /\ since[1] > 0
    /\ agvs[1].position_m < LANE_LENGTH
    /\ (since[1] + 1) * MIN_SPEED * dt >= LANE_LENGTH


\* C20: with a valid configuration and a duration of 0 or less, the first loop
\* test ends the loop: the body is never entered, no vehicle is advanced, no
\* batch is collected or published, nothing is raised, and main prints a tick
\* count of 0 and exits.
C20_NonPositiveDuration ==
    (es_url = <<"set">> /\ es_api_key = <<"set">> /\ duration <= 0) =>
        /\ pc \in {"main", "while", "print", "done"}
        /\ tick = 0
        /\ \A n \in 1..NumAGV : adv[n] = 0
        /\ docs = <<>>
        /\ posted = <<>>
        /\ exc = "None"
        /\ out = IF pc = "done" THEN <<0>> ELSE <<>>

C20_Witness ==
    /\ pc = "done"
    /\ duration = 0
    /\ Len(agvs) = NumAGV
    /\ out = <<0>>

==============================================================================
